---- MODULE Spec2Model ----
(***************************************************************************)
(* Model of the ddm_monitor ingestion pipeline (src/main.py): one run of   *)
(* scrape_ddm_news (listing crawl, detail resolution, update_posts on the  *)
(* data/ directory) and a concurrent get_posts request served from the     *)
(* process-wide latest_posts.                                              *)
(***************************************************************************)
EXTENDS Integers, Sequences, FiniteSets, TLC

\* ---------------------------------------------------------------- bounds
MaxPosts == 1    \* entries one run collects at most
MaxRaw == 2      \* items in the listing container of one page at most
MaxPage == 2     \* page numbers a navigation control can name
MaxFetch == 2    \* listing pages one run fetches at most
MaxDay == 1      \* wall-clock days 0..MaxDay
MaxMinute == 1   \* minutes of a day 0..MaxMinute
MaxRuns == 1     \* runs of scrape_ddm_news in one process lifetime
MaxPublish == 3  \* calls of update_posts in a sequence of publishes
MaxQuery == 2    \* offset and limit of a get_posts request at most
MaxInput == 2    \* distinct datasets handed to update_posts in such a sequence
MaxEntries == 6  \* entries handed to the batch loop at most
MaxCrawl == 3    \* entries a crawl of distinguishable entries collects at most
MaxClockDay == 2     \* the scheduler's clock runs over days 0..MaxClockDay
MaxClockMinute == 2  \* minutes of a day of that clock, and target minutes
MaxSecond == 1       \* the part of a minute of that clock
MaxItems == 4        \* items extract_page_data hands to crawl_timeline at most

\* ------------------------------------------------------- program constants
batch_size == 5

None == "None"
Absent == "absent"

Min(a, b) == IF a < b THEN a ELSE b

\* ------------------------------------------------------------------ posts
\* the dict built at lines 245-251: no "content" and no "error" key yet
NewPost == [title |-> "new", content |-> Absent, error |-> Absent]

\* what one fetch_post_detail call can end in
DetailKinds == {"text", "no_text", "no_region", "non200", "timeout",
                "request_error", "exception"}

\* the dict fetch_post_detail returns: "content" and "error" keys (Absent: no key)
fetch_post_detail(kind) ==
    CASE kind = "text"      -> [content |-> "text", error |-> Absent]
      [] kind = "no_text"   -> [content |-> "",     error |-> Absent]
      [] kind = "no_region" -> [content |-> "",     error |-> Absent]
      [] OTHER              -> [content |-> Absent, error |-> "error"]

\* a slip: the "error" key of the detail dict is not copied
MergeDetail_ContentOnly(post, detail) ==
    [post EXCEPT !.content = IF detail.content # Absent THEN detail.content ELSE @]

\* lines 313-317: copy the keys the detail dict has into the post
MergeDetail(post, detail) ==
    [post EXCEPT !.content = IF detail.content # Absent THEN detail.content ELSE @,
                 !.error   = IF detail.error # Absent THEN detail.error ELSE @]

\* --------------------------------------------------------------- the files
NoFile == [kind |-> "absent", posts |-> <<>>]
PartialFile == [kind |-> "partial", posts |-> <<>>]
DataFile(posts) == [kind |-> "data", posts |-> posts]

\* archive file names: posts_<day>.json and posts_<day>_<HHMM>.json
DayName(t) == <<t.day, -1>>
MinuteName(t) == <<t.day, t.minute>>

Times == [day : 0..MaxDay, minute : 0..MaxMinute]
Later(a, b) == a.day < b.day \/ (a.day = b.day /\ a.minute < b.minute)

load_current_posts(file) == IF file.kind = "data" THEN file.posts ELSE <<>>

\* a slip: the same-day collision is not looked for
ArchiveName_DayOnly(arch, t) == DayName(t)

\* lines 70-76: the name archive_current_posts moves the current file to
ArchiveName(arch, t) ==
    IF DayName(t) \in DOMAIN arch THEN MinuteName(t) ELSE DayName(t)


\* an entry of the listing with its title (lines 245-251)
Entry(title) == [NewPost EXCEPT !.title = title]

\* lines 208-258: the entries the item loop appends for one page. A raw item is
\* an "entry" (a title link with an href), "no_link" (filtered out at line 208),
\* "no_href" (line 226, continue) or "raise" (line 255, continue).
RawKinds == {"entry", "no_link", "no_href", "raise"}
RawItemsOf(titles) == [kind : RawKinds, title : titles]
RawItems == RawItemsOf({"new"})

RECURSIVE ExtractItems(_)
ExtractItems(raw) ==
    IF raw = <<>> THEN <<>>
    ELSE IF Head(raw).kind = "entry"
         THEN <<Entry(Head(raw).title)>> \o ExtractItems(Tail(raw))
         ELSE ExtractItems(Tail(raw))

PagesOf(titles) == UNION {[1..n -> RawItemsOf(titles)] : n \in 0..MaxRaw}
RawPages == PagesOf({"new"})

HasRaise(raw) == \E k \in DOMAIN raw : raw[k].kind = "raise"

\* the titles of the entries a page holds, top to bottom
IsEntry(item) == item.kind = "entry"
TitlesOf(raw) == [k \in 1..Len(SelectSeq(raw, IsEntry)) |->
                    SelectSeq(raw, IsEntry)[k].title]

\* a slip: the entries of a page are put in front of those collected so far
Collect_InFront(posts, found) == found \o posts

\* line 252: all_posts.append(post), once per entry of the page
Collect(posts, found) == posts \o found

\* current_url = None (lines 277, 280, 283): no page to fetch
NoUrl == 0

\* lines 262-283: the navigation control of a page, and the page it leads to
NavControls == [kind : {"getList"}, page : 1..MaxPage]
               \cup [kind : {"no_next", "no_getList", "no_match"}, page : {NoUrl}]
NextPage(nav) == IF nav.kind = "getList" THEN nav.page ELSE NoUrl

\* Python's s[a:b] for 0 <= a, 0 <= b
PySlice(s, a, b) == SubSeq(s, a + 1, Min(b, Len(s)))

\* ------------------------------------------------------------------ state
VARIABLES
    latest_posts,    \* the global of line 109
    posts_file,      \* data/current/posts.json
    posts_new_file,  \* data/current/posts_new.json
    archive,         \* data/archive: file name -> file
    now,             \* the wall clock as datetime.now() last read it (line 70)
    pc,              \* where the run of scrape_ddm_news is
    current_posts,   \* line 175
    all_posts,       \* line 186
    current_url,     \* line 187: page to fetch next, None ends the loop
    page_num,        \* line 188
    fetches,         \* listing pages fetched by this run
    batch_i,         \* line 302: the loop index i
    ret,             \* what update_posts returned
    runs,            \* runs started
    \* history of the run in progress (or the last one)
    pre_latest, pre_file, pre_archive,  \* state when the run began
    listing_failure, \* how the listing loop failed, None if it did not
    item_raised,     \* an item of a listing page raised
    failed_step,     \* the step update_posts failed at, None if none
    invoked,         \* update_posts was called
    \* one get_posts request (a threadpool thread)
    r_pc, r_offset, r_limit, r_total, r_end, response,
    r_seen,          \* values latest_posts had while the request ran
    \* history of the listing loop
    visited,         \* the page numbers fetched, in order
    served,          \* the entry titles of each page served, in order
    \* asyncio.gather of one batch (line 306)
    in_flight,       \* positions of all_posts whose detail fetch is under way
    details,         \* position -> what its detail fetch ended in
    issued,          \* position -> detail fetches started for it in this run
    \* src/app/scraper.py, scrape_activities_list
    li_items,        \* the <li> items query_selector_all found (line 59)
    activities,      \* the list returned
    \* src/act.py, crawl_timeline
    extracted,       \* what extract_page_data returned (line 202)
    timeline_data,   \* the list crawl_timeline returns
    \* periodic_scrape (lines 335-350)
    s_pc,            \* "off", "compute" (343-348), "waiting" (349), "running" (350)
    clock,           \* the wall clock in the configured timezone
    target,          \* target_hour:target_minute, as the minute of the day
    s_now,           \* line 343
    next_run,        \* lines 344-346
    active,          \* calls of scrape_ddm_news that have not returned
    returned_at      \* the clock when the last run returned

run_vars == <<pc, current_posts, all_posts, current_url, page_num, fetches,
              batch_i, ret, runs>>
hist_vars == <<pre_latest, pre_file, pre_archive, listing_failure, item_raised,
               failed_step, invoked>>
file_vars == <<posts_file, posts_new_file, archive>>
read_vars == <<r_pc, r_offset, r_limit, r_total, r_end, response>>
crawl_hist == <<visited, served>>
gather_vars == <<in_flight, details, issued>>
side_vars == <<li_items, activities, extracted, timeline_data>>
sched_vars == <<s_pc, clock, target, s_now, next_run, active, returned_at>>
ext_vars == <<crawl_hist, gather_vars, sched_vars, side_vars>>
vars == <<latest_posts, file_vars, now, run_vars, hist_vars, read_vars, r_seen,
          ext_vars>>

NoResponse == [posts |-> <<>>, total |-> -1, has_more |-> FALSE]

\* a dataset an earlier process lifetime published
OldPosts == <<[title |-> "old", content |-> "text", error |-> Absent],
              [title |-> "old", content |-> "", error |-> Absent]>>

\* data/current/posts.json at startup: no file yet, or the last published one
InitFiles == {NoFile, DataFile(OldPosts)}

\* the clock of periodic_scrape: day, minute of the day, and the part of the
\* minute that replace(second=0, microsecond=0) clears
Midnight == [day |-> 0, minute |-> 0, second |-> 0]

\* no listing loop, no batch and no scheduler under way
InitExt ==
    /\ visited = <<>>
    /\ served = <<>>
    /\ in_flight = {}
    /\ details = <<>>
    /\ issued = <<>>
    /\ li_items = <<>>
    /\ activities = <<>>
    /\ extracted = <<>>
    /\ timeline_data = <<>>
    /\ s_pc = "off"
    /\ clock = Midnight
    /\ target = 0
    /\ s_now = Midnight
    /\ next_run = Midnight
    /\ active = 0
    /\ returned_at = Midnight

InitRun ==
    /\ posts_file \in InitFiles
    /\ posts_new_file = NoFile
    /\ archive = <<>>
    /\ latest_posts = load_current_posts(posts_file)
    /\ now = [day |-> 0, minute |-> 0]
    /\ pc = "idle"
    /\ current_posts = <<>>
    /\ all_posts = <<>>
    /\ current_url = NoUrl
    /\ page_num = 1
    /\ fetches = 0
    /\ batch_i = 0
    /\ ret = None
    /\ runs = 0
    /\ pre_latest = latest_posts
    /\ pre_file = posts_file
    /\ pre_archive = archive
    /\ listing_failure = None
    /\ item_raised = FALSE
    /\ failed_step = None
    /\ invoked = FALSE
    /\ r_pc = "idle"
    /\ r_offset = 0
    /\ r_limit = 1
    /\ r_total = 0
    /\ r_end = 0
    /\ response = NoResponse
    /\ r_seen = {}

Init == InitRun /\ InitExt

\* an assignment to the global latest_posts, seen by a request in flight
SetLatest(posts) ==
    /\ latest_posts' = posts
    /\ r_seen' = IF r_pc \in {"r386", "r390"} THEN r_seen \cup {posts} ELSE r_seen


\* ------------------------------------------------- scrape_ddm_news, one run
\* scrape_ddm_news returns: its locals are gone
Return ==
    /\ pc' = "done"
    /\ current_posts' = <<>>
    /\ all_posts' = <<>>
    /\ current_url' = NoUrl
    /\ page_num' = 1
    /\ fetches' = 0
    /\ batch_i' = 0
    /\ ret' = None

\* lines 170-188
StartRun ==
    /\ pc = "idle"
    /\ runs < MaxRuns
    /\ runs' = runs + 1
    /\ current_posts' = latest_posts
    /\ all_posts' = <<>>
    /\ current_url' = 1
    /\ page_num' = 1
    /\ fetches' = 0
    /\ batch_i' = 0
    /\ ret' = None
    /\ pc' = "crawl"
    /\ pre_latest' = latest_posts
    /\ pre_file' = posts_file
    /\ pre_archive' = archive
    /\ listing_failure' = None
    /\ item_raised' = FALSE
    /\ failed_step' = None
    /\ invoked' = FALSE
    /\ UNCHANGED <<latest_posts, file_vars, now, read_vars, r_seen>>
    /\ UNCHANGED ext_vars

\* lines 197-200: a non-200 listing page ends the run
FetchNon200 ==
    /\ pc = "crawl"
    /\ current_url # NoUrl
    /\ fetches < MaxFetch
    /\ listing_failure' = "non200"
    /\ SetLatest(current_posts)
    /\ Return
    /\ UNCHANGED <<file_vars, now, runs, pre_latest, pre_file, pre_archive,
                   item_raised, failed_step, invoked, read_vars>>
    /\ UNCHANGED ext_vars

\* lines 286-294: what the three except clauses of the listing loop do
AfterListingError(kind) == "collected"

\* the listing loop is left: its cursor is not read again
LoopExit ==
    /\ current_url' = NoUrl
    /\ page_num' = 1
    /\ fetches' = 0

\* lines 193, 286-291: the fetch times out or fails in transport
FetchError ==
    /\ pc = "crawl"
    /\ current_url # NoUrl
    /\ fetches < MaxFetch
    /\ \E kind \in {"timeout", "request_error"} :
          /\ listing_failure' = kind
          /\ pc' = AfterListingError(kind)
    /\ LoopExit
    /\ UNCHANGED <<latest_posts, file_vars, now, current_posts, all_posts,
                   batch_i, ret, runs, pre_latest, pre_file,
                   pre_archive, item_raised, failed_step, invoked, read_vars, r_seen>>
    /\ UNCHANGED ext_vars

\* lines 202-213 or 262-284 raise (line 292): before the item loop, or after it
FetchPageRaises ==
    /\ pc = "crawl"
    /\ current_url # NoUrl
    /\ fetches < MaxFetch
    /\ \E raw \in RawPages, after_items \in BOOLEAN :
          /\ Len(all_posts) + Len(ExtractItems(raw)) <= MaxPosts
          /\ all_posts' = IF after_items THEN Collect(all_posts, ExtractItems(raw))
                          ELSE all_posts
          /\ item_raised' = (item_raised \/ (after_items /\ HasRaise(raw)))
    /\ listing_failure' = "page_raise"
    /\ pc' = AfterListingError("page_raise")
    /\ LoopExit
    /\ UNCHANGED <<latest_posts, file_vars, now, current_posts, batch_i, ret, runs,
                   pre_latest, pre_file, pre_archive, failed_step, invoked,
                   read_vars, r_seen>>
    /\ UNCHANGED ext_vars

\* lines 190-284: one pass of the listing loop on a page that is served. The
\* page holds items titled in titles and fits in a list of room entries; a
\* counted pass is one of at most MaxFetch of a site that ends, an uncounted
\* one is of a site whose pages may name each other for ever; a tracked pass
\* is written to the history of the loop.
ListingStep(titles, room, counted, tracked) ==
    /\ pc = "crawl"
    /\ current_url # NoUrl
    /\ fetches < MaxFetch
    /\ \E raw \in PagesOf(titles), nav \in NavControls :
          /\ Len(all_posts) + Len(ExtractItems(raw)) <= room
          /\ counted => (fetches + 1 < MaxFetch \/ NextPage(nav) = NoUrl)
          /\ all_posts' = Collect(all_posts, ExtractItems(raw))
          /\ item_raised' = (item_raised \/ HasRaise(raw))
          /\ IF tracked
             THEN /\ visited' = Append(visited, current_url)
                  /\ served' = Append(served, TitlesOf(raw))
             ELSE UNCHANGED crawl_hist
          /\ IF NextPage(nav) # NoUrl
             THEN /\ current_url' = NextPage(nav)
                  /\ page_num' = NextPage(nav)
                  /\ fetches' = IF counted THEN fetches + 1 ELSE fetches
                  /\ pc' = "crawl"
             ELSE /\ LoopExit
                  /\ pc' = "collected"
    /\ UNCHANGED <<latest_posts, file_vars, now, current_posts, batch_i, ret, runs,
                   pre_latest, pre_file, pre_archive, listing_failure, failed_step,
                   invoked, read_vars, r_seen>>
    /\ UNCHANGED <<gather_vars, sched_vars, side_vars>>

\* a pass on a site that ends within MaxFetch pages
FetchPage == ListingStep({"new"}, MaxPosts, TRUE, FALSE)

\* a pass on a site whose navigation controls are not bounded in any way
CrawlPage == ListingStep({"new"}, MaxPosts, FALSE, FALSE)

\* a pass on a site with distinguishable entries, written to the history
CrawlTitles == {"a", "b"}
TrackPage == ListingStep(CrawlTitles, MaxCrawl, TRUE, TRUE)

\* a slip: the collected list is published whether or not it is empty
ShouldPublish_Always(posts) == TRUE

\* line 298: `if all_posts:`
ShouldPublish(posts) == posts # <<>>

\* lines 296-298, 326-328
AfterLoop ==
    /\ pc = "collected"
    /\ IF ShouldPublish(all_posts)
       THEN /\ pc' = "resolve"
            /\ UNCHANGED <<latest_posts, r_seen, current_posts, all_posts,
                           current_url, page_num, fetches, batch_i, ret>>
       ELSE /\ SetLatest(current_posts)
            /\ Return
    /\ UNCHANGED <<file_vars, now, runs, hist_vars, read_vars>>
    /\ UNCHANGED ext_vars

\* a slip: the step of the range is one short, so batches overlap
NextBatchStart_Overlapping(i) == i + batch_size - 1

\* line 302: range(0, len(all_posts), batch_size) steps the index
NextBatchStart(i) == i + batch_size

\* lines 302-317: one batch, every detail fetch of it completed
ResolveBatch ==
    /\ pc = "resolve"
    /\ batch_i < Len(all_posts)
    /\ LET last == Min(batch_i + batch_size, Len(all_posts))
       IN \E kinds \in [(batch_i + 1)..last -> DetailKinds] :
             all_posts' = [k \in DOMAIN all_posts |->
                             IF k \in DOMAIN kinds
                             THEN MergeDetail(all_posts[k], fetch_post_detail(kinds[k]))
                             ELSE all_posts[k]]
    /\ batch_i' = NextBatchStart(batch_i)
    /\ pc' = IF batch_i' < Len(all_posts) THEN "resolve" ELSE "stage"
    /\ UNCHANGED <<latest_posts, file_vars, now, current_posts, current_url,
                   page_num, fetches, ret, runs, hist_vars, read_vars, r_seen>>
    /\ UNCHANGED ext_vars

\* ------------------------------------- lines 302-317, one fetch at a time
\* line 303: the positions of all_posts the slice all_posts[i:i + batch_size] holds
BatchPositions(i, n) == (i + 1)..Min(i + batch_size, n)

\* what one task of line 305 ends in: "raised" is an exception that leaves
\* fetch_post_detail (its except clauses format and print outside any try)
TaskOutcomes == DetailKinds \cup {"raised"}

\* line 306: what gather hands back for a task, return_exceptions=True
GatherResult(kind) ==
    IF kind = "raised"
    THEN [type |-> "exception", content |-> Absent, error |-> Absent]
    ELSE [type |-> "dict", content |-> fetch_post_detail(kind).content,
          error |-> fetch_post_detail(kind).error]

\* lines 309-317
MergeResult(post, result) ==
    IF result.type = "exception"
    THEN [post EXCEPT !.error = "error"]
    ELSE MergeDetail(post, result)

\* a slip: zip(all_posts, detail_results)
ZipTarget_FromStart(i, j) == j

\* line 309: zip(batch, detail_results) pairs the j-th result with batch[j],
\* which is all_posts[i + j] (j counted from 1)
ZipTarget(i, j) == i + j

\* a slip: the tasks are started and the loop goes on without awaiting them
GatherDone_NotAwaited(flying) == TRUE

\* line 306: await gather(...) resumes when every task of the batch has ended
GatherDone(flying) == flying = {}

\* the frame of the three batch steps
BatchFrame ==
    UNCHANGED <<latest_posts, file_vars, now, current_posts, current_url, page_num,
                fetches, ret, runs, hist_vars, read_vars, r_seen, crawl_hist,
                sched_vars, side_vars>>

\* lines 186-298 collected n entries; the entry at position k is titled k
GivenEntries ==
    /\ pc = "idle"
    /\ runs < MaxRuns
    /\ runs' = runs + 1
    /\ \E n \in 1..MaxEntries : all_posts' = [k \in 1..n |-> Entry(k)]
    /\ pc' = "resolve"
    /\ UNCHANGED <<latest_posts, file_vars, now, current_posts, current_url,
                   page_num, fetches, batch_i, ret, hist_vars, read_vars, r_seen,
                   ext_vars>>

\* lines 303-306: the tasks of one batch are created and handed to gather
StartBatch ==
    /\ pc = "resolve"
    /\ batch_i < Len(all_posts)
    /\ in_flight' = in_flight \cup BatchPositions(batch_i, Len(all_posts))
    /\ details' = <<>>
    /\ issued' = [k \in DOMAIN issued \cup BatchPositions(batch_i, Len(all_posts)) |->
                    (IF k \in DOMAIN issued THEN issued[k] ELSE 0)
                    + (IF k \in BatchPositions(batch_i, Len(all_posts)) THEN 1 ELSE 0)]
    /\ pc' = "gather"
    /\ UNCHANGED <<all_posts, batch_i>>
    /\ BatchFrame

\* one fetch_post_detail task ends, in any order among those in flight
CompleteFetch ==
    /\ in_flight # {}
    /\ \E k \in in_flight, kind \in TaskOutcomes :
          /\ in_flight' = in_flight \ {k}
          /\ details' = [j \in DOMAIN details \cup {k} |->
                            IF j = k THEN [kind |-> kind, result |-> GatherResult(kind)]
                            ELSE details[j]]
    /\ UNCHANGED <<pc, all_posts, batch_i, issued>>
    /\ BatchFrame

\* lines 306-317, 302: gather returns, the results are merged, next batch
EndBatch ==
    /\ pc = "gather"
    /\ GatherDone(in_flight)
    /\ LET batch == BatchPositions(batch_i, Len(all_posts))
       IN all_posts' = [k \in DOMAIN all_posts |->
             IF \E p \in batch \cap DOMAIN details : ZipTarget(batch_i, p - batch_i) = k
             THEN LET p == CHOOSE p \in batch \cap DOMAIN details :
                               ZipTarget(batch_i, p - batch_i) = k
                  IN MergeResult(all_posts[k], details[p].result)
             ELSE all_posts[k]]
    /\ batch_i' = NextBatchStart(batch_i)
    /\ pc' = IF batch_i' < Len(all_posts) THEN "resolve" ELSE "stage"
    /\ UNCHANGED <<in_flight, details, issued>>
    /\ BatchFrame


\* ------------------------------------------- periodic_scrape, lines 335-350
ClockTimes == [day : 0..MaxClockDay, minute : 0..MaxClockMinute,
               second : 0..MaxSecond]

\* a < b on datetimes of one timezone
Before(a, b) ==
    \/ a.day < b.day
    \/ a.day = b.day /\ a.minute < b.minute
    \/ a.day = b.day /\ a.minute = b.minute /\ a.second < b.second

\* t + timedelta(days=1)
NextDay(t) == [t EXCEPT !.day = @ + 1]

\* a slip: `if now > next_run` at line 345
NextRunTime_Strict(t, tgt) ==
    LET today == [day |-> t.day, minute |-> tgt, second |-> 0]
    IN IF Before(today, t) THEN NextDay(today) ELSE today

\* lines 344-346: replace(hour, minute, second=0, microsecond=0), and a day
\* more when now >= next_run
NextRunTime(t, tgt) ==
    LET today == [day |-> t.day, minute |-> tgt, second |-> 0]
    IN IF ~Before(t, today) THEN NextDay(today) ELSE today

\* a slip: the loop goes on from the previous target, not from the clock
ObservedNow_PreviousTarget(clk, prev) == prev

\* line 343: now = datetime.now(tz), read again in every pass of the loop
ObservedNow(clk, prev) == clk

\* a slip: asyncio.create_task(scrape_ddm_news()) in place of the await
AfterWake_NotAwaited == "compute"

\* line 350: await scrape_ddm_news() holds the loop until the run returns
AfterWake == "running"

SchedFrame ==
    UNCHANGED <<latest_posts, file_vars, now, run_vars, hist_vars, read_vars,
                r_seen, crawl_hist, gather_vars, side_vars>>

\* lines 30-35, 335-341: the lifespan handler creates the one periodic task
Startup ==
    /\ s_pc = "off"
    /\ target' \in 0..MaxClockMinute
    /\ s_pc' = "compute"
    /\ UNCHANGED <<clock, s_now, next_run, active, returned_at>>
    /\ SchedFrame

\* lines 343-348, up to the call of asyncio.sleep
SchedCompute ==
    /\ s_pc = "compute"
    /\ s_now' = ObservedNow(clock, next_run)
    /\ next_run' = NextRunTime(s_now', target)
    /\ s_pc' = "waiting"
    /\ UNCHANGED <<clock, target, active, returned_at>>
    /\ SchedFrame

\* lines 349-350: the sleep is over, scrape_ddm_news is called
SchedWake ==
    /\ s_pc = "waiting"
    /\ ~Before(clock, next_run)
    /\ active' = active + 1
    /\ s_pc' = AfterWake
    /\ UNCHANGED <<clock, target, s_now, next_run, returned_at>>
    /\ SchedFrame

\* a call of scrape_ddm_news returns; the loop, if it awaits it, goes on
RunReturns ==
    /\ active > 0
    /\ active' = active - 1
    /\ returned_at' = clock
    /\ s_pc' = IF s_pc = "running" THEN "compute" ELSE s_pc
    /\ UNCHANGED <<clock, target, s_now, next_run>>
    /\ SchedFrame

\* time passes, by any amount
ClockTick ==
    /\ \E t \in ClockTimes : Before(clock, t) /\ clock' = t
    /\ UNCHANGED <<s_pc, target, s_now, next_run, active, returned_at>>
    /\ SchedFrame

\* ------------------------- src/app/scraper.py, scrape_activities_list
\* an <li> of the timeline: "entry" has a title link with an href, "no_title"
\* has no title link (line 66), "no_href" has a title link without href
\* (line 71), "raise" makes a query of lines 65-92 raise (line 99)
LiKinds == {"entry", "no_title", "no_href", "raise"}
LiItems == [kind : LiKinds, title : CrawlTitles]

\* lines 70-72, 94-100: the dict appended for an item with a title link
Activity(item) ==
    [title |-> item.title,
     detail_url |-> IF item.kind = "no_href" THEN "" ELSE "url"]

\* lines 63-103: the loop over the items
RECURSIVE ParseActivities(_)
ParseActivities(items) ==
    IF items = <<>> THEN <<>>
    ELSE IF Head(items).kind \in {"no_title", "raise"}
         THEN ParseActivities(Tail(items))
         ELSE <<Activity(Head(items))>> \o ParseActivities(Tail(items))

SideFrame ==
    UNCHANGED <<latest_posts, file_vars, now, run_vars, hist_vars, read_vars,
                r_seen, crawl_hist, gather_vars, sched_vars>>

\* scrape_activities_list runs on a page with the items li_items (no selector
\* matching, lines 50-56, returns the empty list as a page without items does)
ScrapeActivities ==
    /\ li_items = <<>>
    /\ \E items \in UNION {[1..n -> LiItems] : n \in 0..MaxRaw} :
          /\ li_items' = items
          /\ activities' = ParseActivities(items)
    /\ UNCHANGED <<extracted, timeline_data>>
    /\ SideFrame

\* ------------------------------------ src/act.py, crawl_timeline 205-222
\* item.get("link"): a link, or None for an item without the key
Links == {"x", "y", None}

\* the items extract_page_data returned, told apart by their place in the list
TimelineItems(links) == [k \in DOMAIN links |-> [link |-> links[k], place |-> k]]

\* a slip: every item is taken for new
IsNew_Always(link, seen_links) == TRUE

\* line 213: `if link not in seen_links`
IsNew(link, seen_links) == link \notin seen_links

\* lines 209-215: the loop, with seen_links as it stands at each item
RECURSIVE UniqueFrom(_, _)
UniqueFrom(items, seen_links) ==
    IF items = <<>> THEN <<>>
    ELSE IF IsNew(Head(items).link, seen_links)
         THEN <<Head(items)>>
              \o UniqueFrom(Tail(items), seen_links \cup {Head(items).link})
         ELSE UniqueFrom(Tail(items), seen_links)

\* lines 208-220, remove_duplicates=True
unique_timeline_items(items) == UniqueFrom(items, {})

\* crawl_timeline extracts the items and returns them without duplicates
CrawlTimeline ==
    /\ extracted = <<>>
    /\ \E links \in UNION {[1..n -> Links] : n \in 0..MaxItems} :
          /\ extracted' = TimelineItems(links)
          /\ timeline_data' = unique_timeline_items(TimelineItems(links))
    /\ UNCHANGED <<li_items, activities>>
    /\ SideFrame

\* ---------------------------------------------------------- update_posts
\* lines 54-62: the file save_posts leaves at file_path. open(.., 'w') creates or
\* truncates the file before json.dump writes it.
save_posts(file, posts, outcome) ==
    CASE outcome = "ok"          -> DataFile(posts)
      [] outcome = "open_fails"  -> file
      [] outcome = "write_fails" -> PartialFile

SaveOutcomes == {"ok", "open_fails", "write_fails"}

\* a slip: the result of save_posts is not looked at
AfterStaging_Unchecked(ok) == "archive"

\* lines 88-89: update_posts goes on to archive only when staging succeeded
AfterStaging(ok) == IF ok THEN "archive" ELSE "returned"

\* line 78: shutil.move of the current file into the archive directory; a file
\* already under that name is replaced (os.rename)
MoveToArchive(arch, name, file) ==
    [n \in DOMAIN arch \cup {name} |-> IF n = name THEN file ELSE arch[n]]

\* a slip: the new dataset is adopted whatever update_posts returned
LatestAfterPublish_Always(ok, new_posts, old_posts) == new_posts

\* lines 320-325: the dataset latest_posts is bound to after update_posts
LatestAfterPublish(ok, new_posts, old_posts) == IF ok THEN new_posts ELSE old_posts

\* lines 320, 86-89: update_posts is called and stages all_posts
Stage ==
    /\ pc = "stage"
    /\ invoked' = TRUE
    /\ \E outcome \in SaveOutcomes :
          /\ posts_new_file' = save_posts(posts_new_file, all_posts, outcome)
          /\ pc' = AfterStaging(outcome = "ok")
          /\ ret' = IF outcome = "ok" THEN ret ELSE "False"
          /\ failed_step' = IF outcome = "ok" THEN failed_step ELSE "stage"
    /\ UNCHANGED <<latest_posts, posts_file, archive, now, current_posts, all_posts,
                   current_url, page_num, fetches, batch_i, runs, pre_latest,
                   pre_file, pre_archive, listing_failure, item_raised, read_vars,
                   r_seen>>
    /\ UNCHANGED ext_vars

\* a slip: the current file is moved without looking whether it exists
NothingToArchive_Never(file) == FALSE

\* lines 66-67: `if not POSTS_FILE.exists(): return True`
NothingToArchive(file) == file.kind = "absent"

\* lines 92-93, 64-82: archive_current_posts
Archive ==
    /\ pc = "archive"
    /\ IF NothingToArchive(posts_file)
       THEN /\ pc' = "commit"
            /\ UNCHANGED <<now, posts_file, archive, ret, failed_step>>
       ELSE \E t \in Times :
            /\ ~Later(t, now)
            /\ now' = t
            /\ \/ /\ archive' = MoveToArchive(archive, ArchiveName(archive, t),
                                              posts_file)
                  /\ posts_file' = NoFile
                  /\ pc' = "commit"
                  /\ UNCHANGED <<ret, failed_step>>
               \/ /\ pc' = "returned"
                  /\ ret' = "False"
                  /\ failed_step' = IF failed_step = None THEN "archive"
                                    ELSE failed_step
                  /\ UNCHANGED <<posts_file, archive>>
    /\ UNCHANGED <<latest_posts, posts_new_file, current_posts, all_posts,
                   current_url, page_num, fetches, batch_i, runs, pre_latest,
                   pre_file, pre_archive, listing_failure, item_raised, invoked,
                   read_vars, r_seen>>
    /\ UNCHANGED ext_vars

\* lines 96-97: the staged file is renamed to the current file
Commit ==
    /\ pc = "commit"
    /\ posts_file' = posts_new_file
    /\ posts_new_file' = NoFile
    /\ ret' = "True"
    /\ pc' = "returned"
    /\ UNCHANGED <<latest_posts, archive, now, current_posts, all_posts,
                   current_url, page_num, fetches, batch_i, runs, hist_vars,
                   read_vars, r_seen>>
    /\ UNCHANGED ext_vars

\* lines 96, 98-106: the rename raises; the staged file is unlinked, or the
\* unlink fails too and is passed over
CommitFails ==
    /\ pc = "commit"
    /\ posts_new_file' \in {NoFile, posts_new_file}
    /\ ret' = "False"
    /\ failed_step' = IF failed_step = None THEN "commit" ELSE failed_step
    /\ pc' = "returned"
    /\ UNCHANGED <<latest_posts, posts_file, archive, now, current_posts, all_posts,
                   current_url, page_num, fetches, batch_i, runs, pre_latest,
                   pre_file, pre_archive, listing_failure, item_raised, invoked,
                   read_vars, r_seen>>
    /\ UNCHANGED ext_vars

\* lines 320-325
AfterUpdate ==
    /\ pc = "returned"
    /\ SetLatest(LatestAfterPublish(ret = "True", all_posts, current_posts))
    /\ Return
    /\ UNCHANGED <<file_vars, now, runs, hist_vars, read_vars>>
    /\ UNCHANGED ext_vars

\* a slip: update_posts awaits between its steps
SuspensionPoints_InPublish == {"idle", "crawl", "resolve", "archive", "commit", "done"}

\* where the periodic task is suspended at an await: the sleep of line 349
\* ("idle"), client.get at line 193 ("crawl"), gather at line 306 ("resolve"),
\* and leaving the `async with` of line 184 after lines 319-328 ("done").
\* update_posts (lines 84-106) is a plain function without await.
SuspensionPoints == {"idle", "crawl", "resolve", "done"}

\* task.cancel(): CancelledError is raised at the await the task is suspended
\* at; it is no Exception, so lines 286-294 and 330-333 do not catch it and the
\* task ends there
Cancel ==
    /\ pc \in SuspensionPoints
    /\ pc' = "cancelled"
    /\ current_posts' = <<>>
    /\ all_posts' = <<>>
    /\ current_url' = NoUrl
    /\ page_num' = 1
    /\ fetches' = 0
    /\ batch_i' = 0
    /\ ret' = None
    /\ UNCHANGED <<latest_posts, file_vars, now, runs, hist_vars, read_vars, r_seen>>
    /\ UNCHANGED ext_vars

\* periodic_scrape (line 350) goes on after the run; the record of the run is
\* dropped
Finish ==
    /\ pc = "done"
    /\ pc' = "idle"
    /\ pre_latest' = latest_posts
    /\ pre_file' = posts_file
    /\ pre_archive' = archive
    /\ listing_failure' = None
    /\ item_raised' = FALSE
    /\ failed_step' = None
    /\ invoked' = FALSE
    /\ UNCHANGED <<latest_posts, file_vars, now, current_posts, all_posts,
                   current_url, page_num, fetches, batch_i, ret, runs, read_vars,
                   r_seen>>
    /\ UNCHANGED ext_vars

\* ------------------------------------------------------------- get_posts
Offsets == 0..MaxQuery
Limits == 1..MaxQuery

\* line 375: the first read of the global
ReadStart ==
    /\ r_pc = "idle"
    /\ \E offset \in Offsets, limit \in Limits :
          /\ r_offset' = offset
          /\ r_limit' = limit
    /\ r_seen' = {latest_posts}
    /\ IF latest_posts = <<>>
       THEN /\ response' = [posts |-> <<>>, total |-> 0, has_more |-> FALSE]
            /\ r_pc' = "done"
       ELSE /\ response' = NoResponse
            /\ r_pc' = "r386"
    /\ UNCHANGED <<r_total, r_end>>
    /\ UNCHANGED <<latest_posts, file_vars, now, run_vars, hist_vars>>
    /\ UNCHANGED ext_vars

\* lines 386-389: the second read
ReadTotal ==
    /\ r_pc = "r386"
    /\ r_total' = Len(latest_posts)
    /\ r_end' = Min(r_offset + r_limit, Len(latest_posts))
    /\ r_pc' = "r390"
    /\ UNCHANGED <<r_offset, r_limit, response, r_seen>>
    /\ UNCHANGED <<latest_posts, file_vars, now, run_vars, hist_vars>>
    /\ UNCHANGED ext_vars

\* lines 390-391, 404-411: the third read, and the response
ReadSlice ==
    /\ r_pc = "r390"
    /\ response' = [posts |-> PySlice(latest_posts, r_offset, r_end),
                    total |-> r_total,
                    has_more |-> r_end < r_total]
    /\ r_pc' = "done"
    /\ UNCHANGED <<r_offset, r_limit, r_total, r_end, r_seen>>
    /\ UNCHANGED <<latest_posts, file_vars, now, run_vars, hist_vars>>
    /\ UNCHANGED ext_vars

\* the response is sent; the thread is free for the next request
ReadDone ==
    /\ r_pc = "done"
    /\ r_pc' = "idle"
    /\ r_offset' = 0
    /\ r_limit' = 1
    /\ r_total' = 0
    /\ r_end' = 0
    /\ response' = NoResponse
    /\ r_seen' = {}
    /\ UNCHANGED <<latest_posts, file_vars, now, run_vars, hist_vars>>
    /\ UNCHANGED ext_vars

\* update_posts(new_posts) is called with a resolved dataset, as line 320 does
PublishInputs ==
    {[k \in 1..n |-> [title |-> "new", content |-> "text", error |-> Absent]] :
        n \in 1..MaxInput}

CallUpdate ==
    /\ pc = "idle"
    /\ runs < MaxPublish
    /\ runs' = runs + 1
    /\ current_posts' = latest_posts
    /\ \E new_posts \in PublishInputs : all_posts' = new_posts
    /\ ret' = None
    /\ pc' = "stage"
    /\ pre_latest' = latest_posts
    /\ pre_file' = posts_file
    /\ pre_archive' = archive
    /\ listing_failure' = None
    /\ item_raised' = FALSE
    /\ failed_step' = None
    /\ invoked' = FALSE
    /\ UNCHANGED <<latest_posts, file_vars, now, current_url, page_num, fetches,
                   batch_i, read_vars, r_seen>>
    /\ UNCHANGED ext_vars

NextRun ==
    \/ StartRun \/ FetchNon200 \/ FetchError \/ FetchPageRaises \/ FetchPage
    \/ AfterLoop \/ ResolveBatch \/ Stage \/ Archive \/ Commit \/ CommitFails
    \/ AfterUpdate \/ Finish

NextRead == ReadStart \/ ReadTotal \/ ReadSlice \/ ReadDone

Next == NextRun

\* runs of scrape_ddm_news
Spec == Init /\ [][Next]_vars

\* runs of scrape_ddm_news with get_posts requests served meanwhile
NextServe == NextRun \/ NextRead
SpecServe == Init /\ [][NextServe]_vars

\* a sequence of calls of update_posts at any times of the wall clock
NextPublish ==
    \/ CallUpdate \/ Stage \/ Archive \/ Commit \/ CommitFails \/ AfterUpdate
    \/ Finish
SpecPublish == Init /\ [][NextPublish]_vars

\* the batch loop alone, one detail fetch at a time
NextResolve == GivenEntries \/ StartBatch \/ CompleteFetch \/ EndBatch
SpecResolve == Init /\ [][NextResolve]_vars

\* the daily loop, with the run as one call that takes any time to return
NextSched == Startup \/ SchedCompute \/ SchedWake \/ RunReturns \/ ClockTick
SpecSched == Init /\ [][NextSched]_vars

\* publishes one after another by a periodic task that can be cancelled
\* wherever it is suspended: before line 320 is reached ("idle" stands for the
\* sleep and for the awaits of the crawl) and after lines 320-325 ("done")
NextCancel == NextPublish \/ Cancel
SpecCancel == Init /\ [][NextCancel]_vars

\* scrape_activities_list on one page
NextActivities == ScrapeActivities
SpecActivities == Init /\ [][NextActivities]_vars

\* crawl_timeline on one list of extracted items
NextTimeline == CrawlTimeline
SpecTimeline == Init /\ [][NextTimeline]_vars

\* the listing loop alone, on pages that are all served, with its history
NextCrawl == StartRun \/ TrackPage
SpecCrawl == Init /\ [][NextCrawl]_vars

\* one run on a site whose pagination is not bounded; the event loop keeps
\* running the coroutine, and every await of it ends (the fetches time out
\* after 20 s), so a step that can be taken is taken
NextLive ==
    \/ StartRun \/ FetchNon200 \/ FetchError \/ FetchPageRaises \/ CrawlPage
    \/ AfterLoop \/ ResolveBatch
    \/ Stage \/ Archive \/ Commit \/ CommitFails \/ AfterUpdate \/ Finish
SpecLive == Init /\ [][NextLive]_vars /\ WF_vars(NextLive)


\* ================================================================ claims
Publishing == pc \in {"stage", "archive", "commit", "returned"}

\* C1 (as claimed): once a current file exists, every publish attempt leaves it
\* a complete dataset when update_posts returns: the new one on success, the
\* one from before the attempt on failure.
C1_CurrentLeftValid ==
    (pc = "returned" /\ pre_file.kind = "data") =>
        /\ posts_file.kind = "data"
        /\ posts_file.posts = IF ret = "True" THEN all_posts ELSE pre_file.posts

\* C2: when a step of publishing failed, latest_posts after the run is the
\* dataset it was before the run.
C2_LatestKeptOnPublishFailure ==
    (pc = "done" /\ failed_step # None) => latest_posts = pre_latest

C2_Witness ==
    /\ pc = "done"
    /\ failed_step = "commit"
    /\ pre_latest = OldPosts
    /\ latest_posts = OldPosts

\* C3 (as claimed): a failed listing fetch (timeout, transport error, non-200)
\* fails the whole run: update_posts is not called and latest_posts, the current
\* file and the archive are as before the run.
C3_ListingFetchFailureFailsRun ==
    (pc = "done" /\ listing_failure \in {"timeout", "request_error", "non200"}) =>
        /\ ~invoked
        /\ latest_posts = pre_latest
        /\ posts_file = pre_file
        /\ archive = pre_archive

\* C4 (as claimed): a listing page whose extraction raises, as a whole or for
\* one item, fails the run: nothing is published from it.
C4_ExtractionFailureFailsRun ==
    (pc = "done" /\ (listing_failure = "page_raise" \/ item_raised)) =>
        /\ ~invoked
        /\ latest_posts = pre_latest
        /\ posts_file = pre_file
        /\ archive = pre_archive

\* C5 (as claimed): the total and the posts of a get_posts response come from
\* one dataset among those latest_posts held while the request ran.
C5_ResponseFromOneSnapshot ==
    r_pc = "done" =>
        \E D \in r_seen :
            /\ response.total = Len(D)
            /\ response.posts = PySlice(D, r_offset, Min(r_offset + r_limit, Len(D)))

\* C6 (as claimed): between any two filesystem steps of update_posts the current
\* file is a complete dataset if one existed when the publish began.
C6_CurrentNeverMissingDuringPublish ==
    (Publishing /\ pre_file.kind = "data") => posts_file.kind = "data"

\* C7: when staging fails, update_posts returns False and leaves the current
\* file and the archive directory as they were.
C7_StagingFailureLeavesCurrent ==
    (pc = "returned" /\ failed_step = "stage") =>
        /\ ret = "False"
        /\ posts_file = pre_file
        /\ archive = pre_archive

C7_Witness ==
    /\ pc = "returned"
    /\ failed_step = "stage"
    /\ pre_file.kind = "data"
    /\ posts_new_file.kind = "partial"
    /\ archive # <<>>

NewArchiveNames == DOMAIN archive \ DOMAIN pre_archive

\* C8 (as claimed): every successful publish adds exactly one archive file and
\* makes the current file the new dataset.
C8_ExactlyOneNewArchive ==
    (pc = "returned" /\ ret = "True") =>
        /\ Cardinality(NewArchiveNames) = 1
        /\ DOMAIN pre_archive \subseteq DOMAIN archive
        /\ posts_file = DataFile(all_posts)

\* C8 (amended): every successful publish makes the current file the new
\* dataset; it adds exactly one archive file, holding the previous current file,
\* when a current file existed and posts_<day> or posts_<day>_<HHMM> was free,
\* and adds none when no current file existed or both names were taken.
C8_OneNewArchiveWhenNameFree ==
    (pc = "returned" /\ ret = "True") =>
        /\ posts_file = DataFile(all_posts)
        /\ DOMAIN pre_archive \subseteq DOMAIN archive
        /\ IF /\ pre_file.kind = "data"
              /\ \/ DayName(now) \notin DOMAIN pre_archive
                 \/ MinuteName(now) \notin DOMAIN pre_archive
           THEN /\ Cardinality(NewArchiveNames) = 1
                /\ \A n \in NewArchiveNames : archive[n] = pre_file
           ELSE NewArchiveNames = {}

C8_Witness ==
    /\ pc = "returned"
    /\ ret = "True"
    /\ pre_file.kind = "data"
    /\ DayName(now) \in DOMAIN pre_archive
    /\ NewArchiveNames = {MinuteName(now)}
    /\ posts_file = DataFile(all_posts)

\* C9 (as claimed): the archive is append-only: no step changes or removes an
\* archive file, and archiving a current file creates a name that was not there.
C9_ArchiveAppendOnly ==
    [][/\ \A n \in DOMAIN archive : n \in DOMAIN archive' /\ archive'[n] = archive[n]
       /\ (pc = "archive" /\ pc' = "commit" /\ posts_file.kind = "data") =>
              DOMAIN archive' # DOMAIN archive]_vars

\* C10 (as claimed): when update_posts failed at archiving or committing, the
\* staged file posts_new.json is gone when it returns.
C10_StagedFileRemovedOnFailure ==
    (pc = "returned" /\ failed_step \in {"archive", "commit"}) =>
        posts_new_file.kind = "absent"

\* a post that went through lines 308-317: "content" or "error" is set, and a
\* text never comes with an error
Resolved(post) ==
    /\ post.content # Absent \/ post.error # Absent
    /\ ~(post.content \notin {Absent, ""} /\ post.error # Absent)

AllResolved(posts) == \A k \in DOMAIN posts : Resolved(posts[k])

\* C16: every post of every published dataset, in latest_posts and in the
\* current file, carries a content or an error, never a non-empty content with
\* an error, and never neither of the two.
C16_PublishedPostsResolved ==
    /\ AllResolved(load_current_posts(posts_file))
    /\ pc \in {"idle", "done"} => AllResolved(latest_posts)

\* a run published a dataset one post of which carries the error of its fetch
C16_Witness ==
    /\ pc = "done"
    /\ invoked
    /\ failed_step = None
    /\ latest_posts = load_current_posts(posts_file)
    /\ \E k \in DOMAIN latest_posts :
          latest_posts[k].title = "new" /\ latest_posts[k].error # Absent

\* the failure kinds of a detail fetch the text names: timeout, transport
\* error, non-2xx status, missing content region
FailureKinds == {"timeout", "request_error", "non200", "no_region"}

\* C13: batch resolution preserves length and order: when a batch has been
\* merged the list is as long as before, every entry keeps its position, the
\* post at position i carries the content or the error of the fetch issued for
\* entry i (returned or raised), and no other post changed, whatever the order
\* the fetches of the batch completed in.
C13_BatchKeepsLengthAndOrder ==
    [][(pc = "gather" /\ pc' # "gather") =>
          /\ in_flight = {}
          /\ DOMAIN details = BatchPositions(batch_i, Len(all_posts))
          /\ Len(all_posts') = Len(all_posts)
          /\ \A k \in DOMAIN all_posts :
                /\ all_posts'[k].title = k
                /\ IF k \in DOMAIN details
                   THEN LET r == details[k].result
                        IN /\ r.type = "exception" => all_posts'[k].error # Absent
                           /\ r.type = "dict" /\ r.error # Absent =>
                                 all_posts'[k].error = r.error
                           /\ r.type = "dict" /\ r.content # Absent =>
                                 all_posts'[k].content = r.content
                           /\ r.type = "dict" /\ r.content = Absent =>
                                 all_posts'[k].content = Absent
                           /\ r.type = "dict" /\ r.error = Absent =>
                                 all_posts'[k].error = Absent
                   ELSE all_posts'[k] = all_posts[k]]_vars

\* two batches were merged, with a failed fetch and a raised one among them
C13_Witness ==
    /\ pc = "stage"
    /\ Len(all_posts) > batch_size
    /\ details # <<>>
    /\ \E k \in DOMAIN all_posts : all_posts[k].error # Absent
    /\ \E k \in DOMAIN all_posts : all_posts[k].content = "text"
    /\ \E k \in DOMAIN details : details[k].kind = "raised"

\* C14: the batches run one after another: at every moment at most batch_size
\* detail fetches are in flight, and every fetch in flight belongs to the
\* batch at the loop index, so that no fetch of the next batch starts before
\* every fetch of this one has completed.
C14_BatchesSequential ==
    /\ Cardinality(in_flight) <= batch_size
    /\ in_flight \subseteq BatchPositions(batch_i, Len(all_posts))
    /\ pc # "gather" => in_flight = {}

\* the second batch is in flight after a first batch of batch_size fetches
C14_Witness ==
    /\ pc = "gather"
    /\ batch_i = batch_size
    /\ in_flight # {}

\* C15: each of the failure kinds timeout, transport error, non-2xx status and
\* missing content region yields a returned post whose error is set and whose
\* content is the empty string (and the call does not raise).
C15_FailureKindsYieldError ==
    \A k \in DOMAIN details :
        details[k].kind \in FailureKinds =>
            /\ details[k].result.type = "dict"
            /\ details[k].result.error # Absent
            /\ details[k].result.content = ""

\* C11: the listing crawl always terminates: whatever the pages answer, even
\* when every page names a further page, the pagination loop is left.
C11_CrawlTerminates == (pc = "crawl") ~> (pc # "crawl")

RECURSIVE Concat(_)
Concat(seqs) == IF seqs = <<>> THEN <<>> ELSE Head(seqs) \o Concat(Tail(seqs))

PostsOf(titles) == [k \in DOMAIN titles |-> Entry(titles[k])]

\* C12: when the pages of a listing are all served and the last one names no
\* next page, the loop is left and the collected list is the concatenation of
\* the entries of the pages in the order they were fetched, each page top to
\* bottom, duplicates kept and nothing sorted.
C12_CollectedInPageOrder ==
    /\ pc = "crawl" => current_url # NoUrl
    /\ pc \in {"crawl", "collected"} =>
          /\ Len(visited) = Len(served)
          /\ all_posts = PostsOf(Concat(served))

\* pages 1 and 2 were fetched, page 1 named page 2, page 2 named none; the
\* entries are not in sorted order and one title comes twice
C12_Witness ==
    /\ pc = "collected"
    /\ visited = <<1, 2>>
    /\ served = << <<"b", "a">>, <<"b">> >>
    /\ Len(all_posts) = 3

\* something failed in the run in progress: a listing fetch or a listing page
\* (listing_failure), an item of a listing page, a detail fetch, or a step of
\* update_posts
Failed ==
    \/ listing_failure # None
    \/ item_raised
    \/ failed_step # None
    \/ \E k \in DOMAIN all_posts : all_posts[k].error # Absent

\* C20: whatever fails during a run, the run returns to periodic_scrape, which
\* goes on to wait for the next scheduled time.
C20_FailedRunReturns == (pc \notin {"idle", "done"} /\ Failed) ~> (pc = "idle")

\* C17: at most one run is in progress at any time, however long a run lasts.
C17_AtMostOneRun == active <= 1

\* a run is still in progress a day and more after the target it was started for
C17_Witness ==
    /\ active = 1
    /\ s_pc = "running"
    /\ ~Before(clock, NextDay(next_run))

\* C18: the scheduler alternates waiting and running: leaving the wait calls
\* the run exactly once, a run is called or returns in no other step, the
\* running state is left only by the run returning, and the wait is entered
\* only with a target computed from the clock as read then, which is not
\* earlier than the return of the last run.
C18_SchedulerAlternates ==
    [][/\ (s_pc = "waiting" /\ s_pc' # "waiting") =>
             (s_pc' = "running" /\ active' = active + 1)
       /\ (s_pc = "running" /\ s_pc' # "running") =>
             (s_pc' = "compute" /\ active' = active - 1 /\ returned_at' = clock)
       /\ active' > active => s_pc = "waiting"
       /\ active' < active => s_pc = "running"
       /\ (s_pc # "waiting" /\ s_pc' = "waiting") =>
             /\ s_pc = "compute"
             /\ s_now' = clock
             /\ ~Before(s_now', returned_at)
             /\ next_run' = NextRunTime(clock, target)]_vars

\* the loop waits again after a run that returned later than its target day
C18_Witness ==
    /\ s_pc = "waiting"
    /\ returned_at # Midnight
    /\ s_now = returned_at
    /\ next_run.day > 1
    /\ next_run.day = s_now.day + (IF s_now.minute < target THEN 0 ELSE 1)

\* C19: the computed next run is at the target minute with zero seconds, is
\* strictly later than now and at most one day after now: today's target when
\* now is before it, tomorrow's when now is at or past it.
C19_NextRunIsNextTarget ==
    s_pc \in {"waiting", "running"} =>
        LET today == [day |-> s_now.day, minute |-> target, second |-> 0]
        IN /\ next_run.minute = target
           /\ next_run.second = 0
           /\ Before(s_now, next_run)
           /\ ~Before(NextDay(s_now), next_run)
           /\ Before(s_now, today) => next_run = today
           /\ ~Before(s_now, today) => next_run = NextDay(today)

\* now is exactly the target time: the next run is the following day's
C19_Witness ==
    /\ s_pc = "waiting"
    /\ s_now = [day |-> 1, minute |-> target, second |-> 0]
    /\ next_run = [day |-> 2, minute |-> target, second |-> 0]
    /\ target > 0

Max(a, b) == IF a > b THEN a ELSE b

\* C21: the posts of a get_posts response are a slice, starting at offset, of
\* a dataset latest_posts held while the request ran; they are at most limit,
\* and as many as min(limit, max(0, total - offset)) for the total reported.
C21_PostsAreTheSlice ==
    r_pc = "done" =>
        /\ Len(response.posts) <= r_limit
        /\ Len(response.posts) = Min(r_limit, Max(0, response.total - r_offset))
        /\ \E D \in r_seen :
              \A k \in DOMAIN response.posts :
                  /\ r_offset + k \in DOMAIN D
                  /\ response.posts[k] = D[r_offset + k]

\* C22: has_more of a get_posts response is true exactly when
\* offset + len(posts) < total, an offset at or past the end included.
C22_HasMoreIffRest ==
    r_pc = "done" =>
        (response.has_more <=> r_offset + Len(response.posts) < response.total)

\* C24: the pagination cursor advances strictly forward: each listing page
\* fetched in a run has a page number greater than every page fetched before
\* it, so that no page is fetched twice.
C24_CursorStrictlyForward ==
    \A j, k \in DOMAIN visited : j < k => visited[j] < visited[k]

\* C29: whenever no run is in progress, latest_posts is the dataset stored in
\* the current file, or is empty when there is no current file.
C29_LatestMirrorsCurrentFile ==
    pc \in {"idle", "done"} => latest_posts = load_current_posts(posts_file)

\* C28: a crawl that collected no entry does not publish: the run returns
\* from there with update_posts not invoked and no detail fetch issued, and
\* latest_posts, the current file, the staged file and the archive are as they
\* were before the run.
C28_EmptyCrawlNeverPublishes ==
    [][(pc = "collected" /\ all_posts = <<>>) =>
          /\ pc' = "done"
          /\ ~invoked'
          /\ latest_posts' = pre_latest
          /\ posts_file' = pre_file
          /\ archive' = pre_archive
          /\ posts_new_file' = posts_new_file]_vars

\* a run over a listing without entries has returned, with a dataset of two
\* posts published before it still in place
C28_Witness ==
    /\ pc = "done"
    /\ listing_failure = None
    /\ ~invoked
    /\ latest_posts = OldPosts
    /\ posts_file = DataFile(OldPosts)

\* C26: update_posts stages, then archives, then commits, and stops at the
\* first step that fails: the archive step is reached only from a staging that
\* wrote the whole dataset, the commit step only from the archive step; the
\* archive changes only in the archive step and the current file only there
\* (moved away) and in the commit step (the staged file moved in); a step that
\* fails ends the call with False; and with no current file the archive step
\* succeeds and creates no archive file.
C26_StageArchiveCommitInOrder ==
    [][/\ (pc # "archive" /\ pc' = "archive") =>
             (pc = "stage" /\ posts_new_file' = DataFile(all_posts))
       /\ (pc # "commit" /\ pc' = "commit") => pc = "archive"
       /\ archive' # archive => (pc = "archive" /\ pc' = "commit")
       /\ posts_file' # posts_file =>
             \/ pc = "archive" /\ pc' = "commit" /\ posts_file' = NoFile
             \/ pc = "commit" /\ posts_file' = posts_new_file /\ ret' = "True"
       /\ (pc = "stage" /\ pc' # "archive") =>
             (pc' = "returned" /\ ret' = "False" /\ failed_step' = "stage")
       /\ (pc = "archive" /\ pc' # "commit") =>
             (pc' = "returned" /\ ret' = "False" /\ posts_file' = posts_file)
       /\ (pc = "archive" /\ posts_file = NoFile) =>
             (pc' = "commit" /\ archive' = archive /\ ret' = ret)]_vars

\* a first publish went through: nothing to archive, the staged file committed
C26_Witness ==
    /\ pc = "returned"
    /\ ret = "True"
    /\ pre_file = NoFile
    /\ archive = pre_archive
    /\ posts_file = DataFile(all_posts)
    /\ posts_new_file = NoFile

\* C25: there are no retries in detail resolution: in one run no more than one
\* detail fetch is started for a list position, a fetch that has ended is not
\* started again, and when the batches are through exactly one was started
\* for every collected entry.
C25_OneFetchPerEntry ==
    /\ \A k \in DOMAIN issued : issued[k] = 1
    /\ DOMAIN issued \subseteq DOMAIN all_posts
    /\ pc = "stage" => DOMAIN issued = DOMAIN all_posts

\* more than one batch went through and at least one fetch failed
C25_Witness ==
    /\ pc = "stage"
    /\ Len(all_posts) > batch_size
    /\ \E k \in DOMAIN all_posts : all_posts[k].error # Absent
    /\ \A k \in DOMAIN all_posts : issued[k] = 1

\* C27: a listing extractor drops an item without a resolvable link: no entry
\* that scrape_activities_list returns has an empty detail URL, and the other
\* items of the page are returned.
C27_LinklessItemsDropped ==
    /\ \A k \in DOMAIN activities : activities[k].detail_url # ""
    /\ Len(activities) =
          Cardinality({k \in DOMAIN li_items : li_items[k].kind = "entry"})

\* the places of the items that are the first with their link
FirstPlaces == {k \in DOMAIN extracted :
                  \A j \in 1..(k - 1) : extracted[j].link # extracted[k].link}

\* C30: crawl_timeline with remove_duplicates returns the extracted items
\* without duplicates by link: no two returned items have the same link, the
\* result holds exactly the first item of each link in the order of the
\* extracted list, and removing duplicates from the result changes nothing.
C30_DuplicatesByLinkRemoved ==
    /\ \A j, k \in DOMAIN timeline_data :
          j # k => timeline_data[j].link # timeline_data[k].link
    /\ Len(timeline_data) = Cardinality(FirstPlaces)
    /\ \A k \in DOMAIN timeline_data :
          /\ timeline_data[k].place \in FirstPlaces
          /\ timeline_data[k] = extracted[timeline_data[k].place]
    /\ \A j, k \in DOMAIN timeline_data :
          j < k => timeline_data[j].place < timeline_data[k].place
    /\ unique_timeline_items(timeline_data) = timeline_data

\* a list with a link three times, another link between, and an item without
\* link was reduced to the first of each
C30_Witness ==
    /\ Len(extracted) = 4
    /\ extracted[1].link = "x"
    /\ extracted[2].link = "y"
    /\ extracted[3].link = "x"
    /\ extracted[4].link = None
    /\ Len(timeline_data) = 3
    /\ timeline_data[3].place = 4

\* C23: cancellation of the periodic task does not interrupt a publish between
\* its steps: when the task was cancelled, either update_posts had not been
\* called in the run and the files are as the run found them, or the call had
\* ended, failed or with the staged dataset committed as the current file and
\* bound to latest_posts; the current file is never half-written.
C23_CancelNotInsidePublish ==
    pc = "cancelled" =>
        /\ posts_file.kind # "partial"
        /\ ~invoked =>
              (posts_file = pre_file /\ archive = pre_archive
               /\ latest_posts = pre_latest)
        /\ invoked =>
              \/ failed_step # None
              \/ /\ posts_file.kind = "data"
                 /\ posts_new_file = NoFile
                 /\ latest_posts = posts_file.posts

\* the task was cancelled right after a publish that archived the previous
\* current file and committed the new one
C23_Witness ==
    /\ pc = "cancelled"
    /\ invoked
    /\ failed_step = None
    /\ pre_file = DataFile(OldPosts)
    /\ posts_file.kind = "data"
    /\ posts_file # pre_file
    /\ archive # pre_archive

====
